---- MODULE Spec2Model ----
(***************************************************************************)
(* Model of the net-hosts-manager collectors.                              *)
(*                                                                         *)
(*   Spec     one run of HuaweiCollector.run_for_files: the main thread    *)
(*            writes the header, submits one task per host to the thread   *)
(*            pool of BaseCollector.run, and every task runs               *)
(*            HuaweiCollector.run_for_device.                              *)
(*   SpecRow  HuaweiCollector.get_report_row applied to collected results. *)
(*   SpecCsv  ReporterCsv.write_header / write_row called by concurrent    *)
(*            threads that share CSV_WRITER_LOCK.                          *)
(*   SpecDevice    HuaweiCollector.request_all_for_device on one connected *)
(*            host, request by request.                                    *)
(*   SpecSsh  BaseSSH.send_command called for a list of calls on one       *)
(*            object, with what goes over the transport.                   *)
(*   SpecPlatform  HuaweiSSH.hardware_platform applied to a hardware text. *)
(*   SpecLive the run of Spec under fair scheduling of its threads.        *)
(*   SpecLog  the per-host loggers of concurrent host tasks.               *)
(*   SpecUptime    HuaweiSSH.convert_uptime_to_since_date applied twice to *)
(*            one uptime text while the clock advances.                    *)
(*   SpecConn one BaseSSH object under connect_ssh, send_command and       *)
(*            disconnect_ssh calls.                                        *)
(*   SpecHosts     BaseCollector.iter_hosts_from_file over a hosts file.   *)
(***************************************************************************)
EXTENDS Integers, Sequences, FiniteSets, TLC

\* ---------------------------------------------------------------- bounds
MaxHosts == 2
MaxThreads == 2
MaxCommands == 1
MaxWriters == 2
MaxCells == 2
MaxRows == 1
MaxCalls == 2
MaxText == 4

\* ------------------------------------------------------------- constants
\* HuaweiCollector.COLUMNS_HEADER: the keys, in the order of the dict literal.
COLUMNS_HEADER ==
    << "geo", "segment", "role", "hostname", "mgmt_ip", "hardware",
       "software_version", "patch_version", "uptime", "esn_chassis",
       "main_boards_list", "stack_info", "in_used", "capacity",
       "memory_usage", "mab_users_number", "dot1x_users_number", "vrf",
       "total", "bgp", "ospf", "isis", "static", "direct", "updated" >>

\* value[0] of every entry of COLUMNS_HEADER, same order.
COLUMN_TITLES ==
    << "Location", "Segment", "Role", "Hostname", "MGMT IP", "Hadware",
       "Software version", "Patch version", "Last reboot date", "ESN Chassis",
       "Boards", "Stack", "MAC Used", "MAC Capacity", "Memory Usage",
       "MAB users", "802.1x users", "VRF", "Total Routes", "BGP", "OSPF",
       "IS-IS", "Static", "Direct", "Updated" >>

\* The keys of HuaweiCollector._check_list.
CHECKS ==
    { "common", "lldp", "stack", "esn_chassis", "esn_full", "all_boards_list",
      "main_boards_list", "mac_summary", "routes_summary", "access_users_mab",
      "access_users_dot1x", "vrf", "resources" }

\* The check lists a run is started with. The check_list setter can install
\* any value per key; the two keys the class enables are varied here, the
\* others stay disabled as in the class attribute.
CheckLists == { [c \in CHECKS |-> c \in on] : on \in SUBSET {"common", "stack"} }

\* HuaweiSSH.HARDWARE_PLATFORMS, in the order of the dict literal.
HARDWARE_PLATFORMS == << "CE", "S", "USG" >>

\* A hardware text is modelled by the set of platform patterns it matches.
HardwareTexts == SUBSET {"CE", "S", "USG"}

DISPLAY_VERSION == "display version"
DISPLAY_PATCH == "display patch"
DISPLAY_SYSNAME == "display current-configuration | include sysname"
DISPLAY_STACK == "display stack"
DISPLAY_CHASSIS_ESN == "display esn"
DISPLAY_DEVICE == "display device manufacture-info"
DISPLAY_MAC_SUMMARY == "display mac-address summary"
DISPLAY_ROUTES_SUMMARY == "display ip routing-table all-vpn-instance statistics"
DISPLAY_IP_VRF == "display ip vpn-instance"
DISPLAY_DOT1X_USERS == "display access-user access-type dot1x"
DISPLAY_MAC_USERS == "display access-user access-type mac-authen"

\* The keys of REGEX_ROUTES_SUMMARY.
ROUTES_KEYS == {"total", "direct", "static", "ospf", "isis", "bgp"}

SSH_LIB_NETMIKO == "netmiko"
SSH_LIB_PARAMIKO == "paramiko"
NoLib == "None"

\* ------------------------------------------------------------ dictionaries
\* A Python dict is a function from its keys to the values.
EmptyDict == [k \in {} |-> ""]

Merge(a, b) ==
    [k \in (DOMAIN a) \cup (DOMAIN b) |-> IF k \in DOMAIN b THEN b[k] ELSE a[k]]

Put(d, key, value) == Merge(d, [k \in {key} |-> value])

\* --------------------------------------------------------- device answers
\* What the device answers to the commands of one collection, as far as the
\* extraction code distinguishes it.
DeviceResponses ==
    [ version_match : BOOLEAN,          \* 'display version' holds a VRP version
      hardware      : HardwareTexts,    \* the hardware text of 'display version'
      uptime_match  : BOOLEAN,          \* 'display version' holds 'uptime is'
      hostnames_ok  : 0..3,             \* CustomerHostnames lookups that return
      stack         : {"single", "stack", "nomatch"},
      mac_match     : BOOLEAN,
      patch_match   : BOOLEAN,          \* 'display patch' holds a package version
      no_patch_exists : BOOLEAN ]       \* 'display patch' holds 'No patch exists'

\* ------------------------------------------------- one host's SSH session
\* The fields of a HuaweiSSH object and of the collection in progress:
\*   hardware_set / hardware   self._hardware (class attribute '' until set)
\*   os_version_set            self._os_version exists (no class attribute)
\*   properties                the dict request_all_for_device builds
\*   sent                      the commands given to send_command, in order
\*   requested                 the requests of request_all_for_device begun
\*   raised                    an exception is propagating
NewSession ==
    [ hardware_set |-> FALSE, hardware |-> {}, os_version_set |-> FALSE,
      properties |-> EmptyDict, sent |-> << >>, requested |-> 0,
      raised |-> FALSE ]

send_command(s, command) == [s EXCEPT !.sent = Append(@, command)]

Raise(s) == [s EXCEPT !.raised = TRUE]

\* HuaweiSSH.request_hardware_info: sends 'display version', stores the
\* hardware, then logs self.os_version, whose getter reads self._os_version:
\* an AttributeError when no request has set it.
request_hardware_info(s, resp) ==
    LET t == [send_command(s, DISPLAY_VERSION) EXCEPT
                 !.hardware_set = TRUE, !.hardware = resp.hardware]
    IN  IF t.os_version_set THEN t ELSE Raise(t)

\* The session after "self.hardware or self.request_hardware_info()".
with_hardware(s, resp) ==
    IF s.hardware_set THEN s ELSE request_hardware_info(s, resp)

\* A hardware_platform that returns the last platform whose pattern matches.
hardware_platform_last_match(hardware) ==
    LET matching == { i \in 1..Len(HARDWARE_PLATFORMS) : HARDWARE_PLATFORMS[i] \in hardware }
    IN  IF matching = {} THEN "None"
        ELSE HARDWARE_PLATFORMS[CHOOSE i \in matching : \A j \in matching : i >= j]

\* HuaweiSSH.hardware_platform, given the hardware text: the first platform of
\* HARDWARE_PLATFORMS whose pattern matches, None when no pattern does.
hardware_platform(hardware) ==
    LET matching == { i \in 1..Len(HARDWARE_PLATFORMS) : HARDWARE_PLATFORMS[i] \in hardware }
    IN  IF matching = {} THEN "None"
        ELSE HARDWARE_PLATFORMS[CHOOSE i \in matching : \A j \in matching : i <= j]

\* ------------------------------------------------------------- extraction
\* The value of a field that was extracted from the device's answer.
Extracted == "value"

\* Python's None as a value of a dict.
None == "None"

\* HuaweiSSH._return_patch: the version when the pattern matches; else the
\* AttributeError handler returns 'No patch' when _is_no_patch_exists, and
\* otherwise falls off the end of the function: None. The clause that returns
\* 'N/A' handles the exceptions that are no AttributeError, and none occurs.
return_patch(resp) ==
    IF resp.patch_match THEN Extracted
    ELSE IF resp.no_patch_exists THEN "No patch"
    ELSE None

\* HuaweiSSH.request_common_info. _return_version ends in a call of
\* self.get_ip_address(), which no class defines, and _return_uptime in a call
\* of the global name log_match_error, which the module does not define: both
\* raise when their pattern does not match, before the later fields are set.
HuaweiSSH_request_common_info(s, resp) ==
    LET s1 == send_command(s, DISPLAY_VERSION)
        s2 == [s1 EXCEPT !.os_version_set = TRUE, !.hardware_set = TRUE,
                         !.hardware = resp.hardware]
        s3 == send_command(send_command(s2, DISPLAY_PATCH), DISPLAY_SYSNAME)
    IN  IF ~resp.version_match THEN Raise(s1)
        ELSE IF ~resp.uptime_match THEN Raise(s2)
        ELSE [s3 EXCEPT !.properties =
                 Merge(@, [k \in {"hostname", "software_version", "patch_version",
                                  "hardware", "uptime"} |->
                              IF k = "patch_version" THEN return_patch(resp)
                              ELSE Extracted])]

\* The keys HuaweiCollector.request_common_info adds from CustomerHostnames
\* when n of its three lookups return before one raises (the except clause
\* keeps the keys set so far); mgmt_ip follows the third lookup.
hostname_keys(n) ==
    CASE n = 0 -> {}
      [] n = 1 -> {"geo"}
      [] n = 2 -> {"geo", "segment"}
      [] OTHER -> {"geo", "segment", "role", "mgmt_ip"}

\* HuaweiCollector.request_common_info: the only place that reads _check_list.
request_common_info(s, resp, checks) ==
    IF ~checks["common"] THEN s
    ELSE LET t == HuaweiSSH_request_common_info(s, resp)
         IN  IF t.raised THEN t
             ELSE [t EXCEPT !.properties =
                      Merge(@, [k \in hostname_keys(resp.hostnames_ok) |-> Extracted])]

\* HuaweiSSH.request_stack_brief_info(one_key_only=True): always the one key
\* 'stack_info'; the platform is read only when a stack of two or more members
\* does not match the stack pattern.
request_stack_brief_info(s, resp) ==
    LET s1 == send_command(s, DISPLAY_STACK)
    IN  CASE resp.stack = "single" -> [s1 EXCEPT !.properties = Put(@, "stack_info", "")]
          [] resp.stack = "stack" -> [s1 EXCEPT !.properties = Put(@, "stack_info", Extracted)]
          [] OTHER ->
               LET s2 == with_hardware(s1, resp)
               IN  IF s2.raised THEN s2
                   ELSE [s2 EXCEPT !.properties = Put(@, "stack_info", Extracted)]

\* A request_mac_summary that returns the number in use under the key 'total'.
request_mac_summary_total(s, resp) ==
    LET s1 == with_hardware(send_command(s, DISPLAY_MAC_SUMMARY), resp)
    IN  IF s1.raised THEN s1
        ELSE IF hardware_platform(s1.hardware) \in {"CE", "S"} /\ resp.mac_match
        THEN [s1 EXCEPT !.properties =
                 Merge(@, [k \in {"capacity", "total"} |-> Extracted])]
        ELSE s1

\* HuaweiSSH.request_mac_summary: the command is sent, then the pattern is
\* chosen by platform; the empty pattern of the other platforms has no group
\* 'capacity' (IndexError, caught) and yields {} like a failed match.
request_mac_summary(s, resp) ==
    LET s1 == with_hardware(send_command(s, DISPLAY_MAC_SUMMARY), resp)
    IN  IF s1.raised THEN s1
        ELSE IF hardware_platform(s1.hardware) \in {"CE", "S"} /\ resp.mac_match
        THEN [s1 EXCEPT !.properties =
                 Merge(@, [k \in {"capacity", "in_used"} |-> Extracted])]
        ELSE s1

\* HuaweiSSH.request_all_vrf_routes_number: one key per routing protocol,
\* 0 when the pattern does not match.
request_all_vrf_routes_number(s, resp) ==
    [send_command(s, DISPLAY_ROUTES_SUMMARY) EXCEPT
        !.properties = Merge(@, [k \in ROUTES_KEYS |-> Extracted])]

\* HuaweiSSH.request_dot1x_users_number / request_mab_users_number: '' and no
\* command for every platform but S.
request_users_number(s, resp, command, key) ==
    LET s1 == with_hardware(s, resp)
    IN  IF s1.raised THEN s1
        ELSE IF hardware_platform(s1.hardware) = "S"
        THEN [send_command(s1, command) EXCEPT !.properties = Put(@, key, Extracted)]
        ELSE [s1 EXCEPT !.properties = Put(@, key, "")]

\* HuaweiSSH.request_access_users_number: dot1x first, then MAB.
request_access_users_number(s, resp) ==
    LET s1 == request_users_number(s, resp, DISPLAY_DOT1X_USERS, "dot1x_users_number")
    IN  IF s1.raised THEN s1
        ELSE request_users_number(s1, resp, DISPLAY_MAC_USERS, "mab_users_number")

\* HuaweiSSH.request_esn_chassis, joined into one string by the collector.
request_esn_chassis(s, resp) ==
    [send_command(s, DISPLAY_CHASSIS_ESN) EXCEPT
        !.properties = Put(@, "esn_chassis", Extracted)]

\* HuaweiSSH.request_boards_list(printable=True): the pattern is None for
\* every platform but CE and S, and re.finditer(None, ...) raises a TypeError
\* outside the try of _return_boards_list.
request_boards_list(s, resp) ==
    LET s1 == with_hardware(s, resp)
        s2 == send_command(s1, DISPLAY_DEVICE)
    IN  IF s1.raised THEN s1
        ELSE IF hardware_platform(s1.hardware) \in {"CE", "S"}
        THEN [s2 EXCEPT !.properties = Put(@, "main_boards_list", Extracted)]
        ELSE Raise(s2)

\* HuaweiSSH.request_all_vrf_list.
request_all_vrf_list(s, resp) ==
    [send_command(s, DISPLAY_IP_VRF) EXCEPT !.properties = Put(@, "vrf", Extracted)]

\* host_huawei.request_memory_usage(): HuaweiSSH defines
\* request_memory_usage_percentage only, so the attribute lookup raises an
\* AttributeError before anything is sent.
request_memory_usage(s, resp) == Raise(s)

\* properties['updated'] = host_huawei.change_datetime
set_updated(s, resp) == [s EXCEPT !.properties = Put(@, "updated", Extracted)]

\* The requests of HuaweiCollector.request_all_for_device, in the order Python
\* evaluates them: the five of the dict literal, then the five assignments.
REQUESTS ==
    << "common", "stack", "mac_summary", "routes_summary", "access_users",
       "esn_chassis", "main_boards_list", "vrf", "memory_usage", "updated" >>

request(name, s, resp, checks) ==
    CASE name = "common" -> request_common_info(s, resp, checks)
      [] name = "stack" -> request_stack_brief_info(s, resp)
      [] name = "mac_summary" -> request_mac_summary(s, resp)
      [] name = "routes_summary" -> request_all_vrf_routes_number(s, resp)
      [] name = "access_users" -> request_access_users_number(s, resp)
      [] name = "esn_chassis" -> request_esn_chassis(s, resp)
      [] name = "main_boards_list" -> request_boards_list(s, resp)
      [] name = "vrf" -> request_all_vrf_list(s, resp)
      [] name = "memory_usage" -> request_memory_usage(s, resp)
      [] OTHER -> set_updated(s, resp)

\* The i-th request, unless an exception is already propagating.
then_request(s, i, resp, checks) ==
    IF s.raised THEN s
    ELSE request(REQUESTS[i], [s EXCEPT !.requested = i], resp, checks)

\* HuaweiCollector.request_all_for_device: the session after the call; an
\* exception of one request ends the call (raised), the later requests do
\* not run.
request_all_for_device(s, resp, checks) ==
    LET s1 == then_request(s, 1, resp, checks)
        s2 == then_request(s1, 2, resp, checks)
        s3 == then_request(s2, 3, resp, checks)
        s4 == then_request(s3, 4, resp, checks)
        s5 == then_request(s4, 5, resp, checks)
        s6 == then_request(s5, 6, resp, checks)
        s7 == then_request(s6, 7, resp, checks)
        s8 == then_request(s7, 8, resp, checks)
        s9 == then_request(s8, 9, resp, checks)
    IN  then_request(s9, 10, resp, checks)

\* dict.get(key, default)
dict_get(d, key, default) == IF key \in DOMAIN d THEN d[key] ELSE default

\* The loop of HuaweiCollector.get_report_row: for every key of COLUMNS_HEADER
\* in turn, cells.append(host_info.get(key, 'Error')).
RECURSIVE append_cells(_, _, _)
append_cells(cells, keys, info) ==
    IF keys = << >> THEN cells
    ELSE append_cells(Append(cells, dict_get(info, Head(keys), "Error")),
                      Tail(keys), info)

\* A get_report_row that leaves out the columns it has no value for.
get_report_row_skipping(info) ==
    LET present == SelectSeq(COLUMNS_HEADER, LAMBDA key : key \in DOMAIN info)
    IN  [i \in 1..Len(present) |-> info[present[i]]]

\* HuaweiCollector.get_report_row.
get_report_row(info) == append_cells(<< >>, COLUMNS_HEADER, info)

\* HuaweiCollector.get_report_header.
get_report_header == COLUMN_TITLES

\* ===================================================================== Spec
\* One run of HuaweiCollector.run_for_files.
VARIABLES
    check_list,      \* HuaweiCollector._check_list
    threads_number,  \* BaseCollector.threads_number
    nhosts,          \* hosts yielded by iter_hosts_from_file; host h is the h-th
    ncommands,       \* lines of the commands file
    mainpc,          \* position of the main thread
    next_host,       \* the host the loop of BaseCollector.run submits next
    submits,         \* per host: calls of executor.submit for it
    report,          \* rows written to the csv writer, in order
    csv_open,        \* self.csv exists
    pc,              \* per host: position of its task
    logger_ok,       \* per host: BaseSSH.__init__ set self._logger
    ssh_lib_type,    \* per host: BaseSSH._ssh_lib_type
    transport,       \* per host: the Netmiko connection: none, open, closed
    connects,        \* per host: calls of ConnectHandler
    requested,       \* per host: requests request_all_for_device began
    results,         \* per host: the local variable results of run_for_device
    xlsx,            \* the workbook of convert_report_csv_to_xlsx: none, reading, saved
    auth_log         \* per host: levels of the log entries of a failed authentication

fleet_vars ==
    << check_list, threads_number, nhosts, ncommands, mainpc, next_host, submits,
       report, csv_open, pc, logger_ok, ssh_lib_type, transport, connects, requested,
       results, xlsx, auth_log >>

\* SpecRow
VARIABLES host_info, row, row_done
row_vars == << host_info, row, row_done >>

\* SpecCsv
VARIABLES lock, wpc, wrow, wcell, wleft, file
csv_vars == << lock, wpc, wrow, wcell, wleft, file >>

\* SpecDevice
VARIABLES device, enabled, session
device_vars == << device, enabled, session >>

\* SpecSsh
VARIABLES
    lib_type,   \* BaseSSH._ssh_lib_type of the object
    logger,     \* self._logger is set
    channel,    \* self.ssh_channell exists
    calls,      \* the calls of send_command the client makes, in order
    position,   \* calls that have returned
    exchange,   \* where the call in progress stands
    wire,       \* what was written to and read from the transport, in order
    outputs     \* the value each returned call returned
ssh_vars == << lib_type, logger, channel, calls, position, exchange, wire, outputs >>

\* SpecPlatform
VARIABLES hardware_text, platform
platform_vars == << hardware_text, platform >>

\* SpecLog
VARIABLES
    task_name,   \* per host task: str(self) of its BaseSSH object, the hostname
    lpc,         \* per host task: where it stands
    lleft,       \* per host task: commands it has still to log
    loggers,     \* the loggers of the logging module below the collector's, by name
    propagated   \* per host task: a record of its log_command reached the parent
log_vars == << task_name, lpc, lleft, loggers, propagated >>

\* SpecUptime
VARIABLES
    uptime_text,  \* the (number, word) pairs re.findall finds in the uptime text
    clock,        \* the wall clock, in ticks
    since         \* the values convert_uptime_to_since_date has returned, in order
uptime_vars == << uptime_text, clock, since >>

\* SpecConn
VARIABLES
    use_lib,     \* the library connect_ssh uses: Netmiko with a device type, else Paramiko
    conn_type,   \* BaseSSH._ssh_lib_type of the object
    conn_open,   \* the session of the library: none, open, closed
    shell,       \* self.ssh_channell exists (Paramiko)
    ops          \* the calls made on the object and how each ended, in order
conn_vars == << use_lib, conn_type, conn_open, shell, ops >>

\* SpecHosts
VARIABLES
    comment_sign,  \* hosts_file_comment_sign of the configuration
    host_lines,    \* the lines of the hosts file, each a sequence of tokens
    line_no,       \* lines iter_hosts_from_file has read
    hosts_read     \* the hosts it has yielded, in order
hosts_vars == << comment_sign, host_lines, line_no, hosts_read >>

vars == << fleet_vars, row_vars, csv_vars, device_vars, ssh_vars, platform_vars, log_vars, uptime_vars, conn_vars, hosts_vars >>

\* The variables of the other specifications, which each one leaves alone.
not_fleet == << row_vars, csv_vars, device_vars, ssh_vars, platform_vars, log_vars, uptime_vars, conn_vars, hosts_vars >>
not_row == << fleet_vars, csv_vars, device_vars, ssh_vars, platform_vars, log_vars, uptime_vars, conn_vars, hosts_vars >>
not_csv == << fleet_vars, row_vars, device_vars, ssh_vars, platform_vars, log_vars, uptime_vars, conn_vars, hosts_vars >>
not_device == << fleet_vars, row_vars, csv_vars, ssh_vars, platform_vars, log_vars, uptime_vars, conn_vars, hosts_vars >>
not_ssh == << fleet_vars, row_vars, csv_vars, device_vars, platform_vars, log_vars, uptime_vars, conn_vars, hosts_vars >>
not_platform == << fleet_vars, row_vars, csv_vars, device_vars, ssh_vars, log_vars, uptime_vars, conn_vars, hosts_vars >>
not_log ==
    << fleet_vars, row_vars, csv_vars, device_vars, ssh_vars, platform_vars, uptime_vars, conn_vars, hosts_vars >>
not_uptime ==
    << fleet_vars, row_vars, csv_vars, device_vars, ssh_vars, platform_vars, log_vars, conn_vars, hosts_vars >>
not_conn ==
    << fleet_vars, row_vars, csv_vars, device_vars, ssh_vars, platform_vars, log_vars, uptime_vars, hosts_vars >>
not_hosts ==
    << fleet_vars, row_vars, csv_vars, device_vars, ssh_vars, platform_vars, log_vars, uptime_vars, conn_vars >>

Hosts == 1..nhosts

\* self.threads_number after apply_config_file_collector and
\* apply_argument_settings: the int of the configuration file, or the string
\* argparse stores for -t (the option has no type; its default 0 is falsy and
\* keeps the configured int). value 0 stands for every int below 1.
ThreadsNumbers == [type : {"int", "str"}, value : 0..MaxThreads]

Unbound == [bound |-> FALSE, value |-> EmptyDict]
Bound(d) == [bound |-> TRUE, value |-> d]

HeaderRow == [kind |-> "header", host |-> 0, cells |-> get_report_header]
DataRow(h, cells) == [kind |-> "row", host |-> h, cells |-> cells]

\* The positions of a task between the start of connect and its end.
RunningPcs == {"connect", "collect", "disconnect", "write"}
EndedPcs == {"returned", "exception"}
Running == { h \in Hosts : pc[h] \in RunningPcs }

FleetIdle ==
    /\ check_list = [c \in CHECKS |-> FALSE]
    /\ threads_number = [type |-> "int", value |-> 1]
    /\ nhosts = 0
    /\ ncommands = 0
    /\ mainpc = "off"
    /\ next_host = 1
    /\ submits = << >>
    /\ report = << >>
    /\ csv_open = FALSE
    /\ pc = << >>
    /\ logger_ok = << >>
    /\ ssh_lib_type = << >>
    /\ transport = << >>
    /\ connects = << >>
    /\ requested = << >>
    /\ results = << >>
    /\ xlsx = "none"
    /\ auth_log = << >>

RowIdle == host_info = EmptyDict /\ row = << >> /\ row_done = FALSE

CsvIdle ==
    /\ lock = 0
    /\ wpc = << >>
    /\ wrow = << >>
    /\ wcell = << >>
    /\ wleft = << >>
    /\ file = << >>

DeviceIdle ==
    /\ device = [version_match |-> FALSE, hardware |-> {}, uptime_match |-> FALSE,
                 hostnames_ok |-> 0, stack |-> "single", mac_match |-> FALSE,
                 patch_match |-> FALSE, no_patch_exists |-> FALSE]
    /\ enabled = [c \in CHECKS |-> FALSE]
    /\ session = NewSession

SshIdle ==
    /\ lib_type = NoLib
    /\ logger = FALSE
    /\ channel = FALSE
    /\ calls = << >>
    /\ position = 0
    /\ exchange = "idle"
    /\ wire = << >>
    /\ outputs = << >>

PlatformIdle == hardware_text = << >> /\ platform = "unset"

LogIdle ==
    /\ task_name = << >>
    /\ lpc = << >>
    /\ lleft = << >>
    /\ loggers = << >>
    /\ propagated = << >>

UptimeIdle ==
    /\ uptime_text = << >>
    /\ clock = 0
    /\ since = << >>

ConnIdle ==
    /\ use_lib = NoLib
    /\ conn_type = NoLib
    /\ conn_open = "none"
    /\ shell = FALSE
    /\ ops = << >>

HostsIdle ==
    /\ comment_sign = "#"
    /\ host_lines = << >>
    /\ line_no = 0
    /\ hosts_read = << >>

Init ==
    /\ check_list \in CheckLists
    /\ threads_number \in ThreadsNumbers
    /\ nhosts \in 0..MaxHosts
    /\ ncommands \in 0..MaxCommands
    /\ mainpc = "run_for_files"
    /\ next_host = 1
    /\ submits = [h \in Hosts |-> 0]
    /\ report = << >>
    /\ csv_open = FALSE
    /\ pc = [h \in Hosts |-> "new"]
    /\ logger_ok = [h \in Hosts |-> FALSE]
    /\ ssh_lib_type = [h \in Hosts |-> NoLib]
    /\ transport = [h \in Hosts |-> "none"]
    /\ connects = [h \in Hosts |-> 0]
    /\ requested = [h \in Hosts |-> 0]
    /\ results = [h \in Hosts |-> Unbound]
    /\ xlsx = "none"
    /\ auth_log = [h \in Hosts |-> << >>]
    /\ RowIdle
    /\ CsvIdle
    /\ DeviceIdle
    /\ SshIdle
    /\ PlatformIdle
    /\ LogIdle
    /\ UptimeIdle
    /\ ConnIdle
    /\ HostsIdle

\* A run_for_files that creates the report file and writes no header.
CreateReportOnly ==
    /\ mainpc = "run_for_files"
    /\ csv_open' = TRUE
    /\ mainpc' = "run"
    /\ UNCHANGED << not_fleet, xlsx, auth_log, check_list, threads_number, nhosts, ncommands,
                    next_host, submits, report, pc, logger_ok, ssh_lib_type,
                    transport, connects, requested, results >>

\* HuaweiCollector.run_for_files up to the call of BaseCollector.run: the
\* report file is created and the header written.
WriteHeader ==
    /\ mainpc = "run_for_files"
    /\ csv_open' = TRUE
    /\ report' = Append(report, HeaderRow)
    /\ mainpc' = "run"
    /\ UNCHANGED << not_fleet, xlsx, auth_log, check_list, threads_number, nhosts, ncommands,
                    next_host, submits, pc, logger_ok, ssh_lib_type, transport,
                    connects, requested, results >>

\* ThreadPoolExecutor(max_workers): "if max_workers <= 0: raise ValueError";
\* the comparison itself raises a TypeError for a string.
executor_created(max_workers) == max_workers.type = "int" /\ max_workers.value > 0

\* BaseCollector.run, the head of its with statement. An exception of the
\* constructor leaves run and run_for_files: no host is submitted and
\* "del self.csv" is not reached.
CreateExecutor ==
    /\ mainpc = "run"
    /\ mainpc' = IF executor_created(threads_number) THEN "submit" ELSE "exception"
    /\ UNCHANGED << not_fleet, xlsx, auth_log, check_list, threads_number, nhosts, ncommands,
                    next_host, submits, report, csv_open, pc, logger_ok,
                    ssh_lib_type, transport, connects, requested, results >>

\* BaseCollector.run, one turn of "for host in hosts": executor.submit. With or
\* without args the submitted call is HuaweiCollector.run_for_device(host...),
\* which does not read its commands parameter.
Submit ==
    /\ mainpc = "submit"
    /\ next_host <= nhosts
    /\ pc' = [pc EXCEPT ![next_host] = "queued"]
    /\ submits' = [submits EXCEPT ![next_host] = @ + 1]
    /\ next_host' = next_host + 1
    /\ UNCHANGED << not_fleet, xlsx, auth_log, check_list, threads_number, nhosts, ncommands,
                    mainpc, report, csv_open, logger_ok, ssh_lib_type, transport,
                    connects, requested, results >>

\* A shutdown that also returns as soon as one task has raised.
shutdown_on_failure ==
    \/ \A h \in Hosts : pc[h] \in EndedPcs
    \/ \E h \in Hosts : pc[h] = "exception"

\* The end of the with block of BaseCollector.run: executor.shutdown(wait=True)
\* returns when every submitted task has ended, whatever its outcome.
shutdown_returns == \A h \in Hosts : pc[h] \in EndedPcs

\* An exit of the with block that does not wait: executor.shutdown(wait=False).
ExecutorShutdownNoWait ==
    /\ mainpc = "submit"
    /\ next_host > nhosts
    /\ mainpc' = "del_csv"
    /\ UNCHANGED << not_fleet, xlsx, auth_log, check_list, threads_number, nhosts, ncommands,
                    next_host, submits, report, csv_open, pc, logger_ok,
                    ssh_lib_type, transport, connects, requested, results >>

ExecutorShutdown ==
    /\ mainpc = "submit"
    /\ next_host > nhosts
    /\ shutdown_returns
    /\ mainpc' = "del_csv"
    /\ UNCHANGED << not_fleet, xlsx, auth_log, check_list, threads_number, nhosts, ncommands,
                    next_host, submits, report, csv_open, pc, logger_ok,
                    ssh_lib_type, transport, connects, requested, results >>

\* HuaweiCollector.run_for_files: del self.csv
DelCsv ==
    /\ mainpc = "del_csv"
    /\ csv_open' = FALSE
    /\ mainpc' = "returned"
    /\ UNCHANGED << not_fleet, xlsx, auth_log, check_list, threads_number, nhosts, ncommands,
                    next_host, submits, report, pc, logger_ok, ssh_lib_type,
                    transport, connects, requested, results >>

\* HuaweiCollector.main after run_for_files returned:
\* convert_report_csv_to_xlsx opens the report file again, for reading, as
\* self.csv, creates the workbook and copies the header row into it.
OpenReport ==
    /\ mainpc = "returned"
    /\ xlsx = "none"
    /\ csv_open' = TRUE
    /\ xlsx' = "reading"
    /\ UNCHANGED << not_fleet, auth_log, check_list, threads_number, nhosts, ncommands, mainpc,
                    next_host, submits, report, pc, logger_ok, ssh_lib_type,
                    transport, connects, requested, results >>

\* convert_report_csv_to_xlsx: "for row in self.csv.reader" copies the rows
\* left in the file, then self.xlsx.save().
SaveXlsx ==
    /\ xlsx = "reading"
    /\ xlsx' = "saved"
    /\ UNCHANGED << not_fleet, auth_log, check_list, threads_number, nhosts, ncommands, mainpc,
                    next_host, submits, report, csv_open, pc, logger_ok,
                    ssh_lib_type, transport, connects, requested, results >>

\* ThreadPoolExecutor(self.threads_number): a queued task starts only while
\* fewer than threads_number tasks run.
WorkerAvailable == Cardinality(Running) < threads_number.value

\* A worker takes the oldest queued task and runs run_for_device up to the
\* call of connect_ssh: the HuaweiSSH object is created. BaseSSH.__init__
\* catches the AddressValueError of a malformed address before it has set
\* self._logger.
StartTask(h) ==
    /\ pc[h] = "queued"
    /\ WorkerAvailable
    /\ \A g \in Hosts : g < h => pc[g] # "queued"
    /\ \E valid_address \in BOOLEAN :
           logger_ok' = [logger_ok EXCEPT ![h] = valid_address]
    /\ pc' = [pc EXCEPT ![h] = "connect"]
    /\ UNCHANGED << not_fleet, xlsx, auth_log, check_list, threads_number, nhosts, ncommands, mainpc,
                    next_host, submits, report, csv_open, ssh_lib_type, transport,
                    connects, requested, results >>

\* What a call of the Netmiko library does: it returns ("ok") or raises.
LibraryOutcomes ==
    {"ok", "ValueError", "NetMikoAuthenticationException",
     "NetMikoTimeoutException", "Exception"}

\* The exceptions connect_ssh_nmiko handles with a warning. The handler of
\* every other exception ends in self._logger.error() without a message, a
\* TypeError that leaves connect_ssh.
HandledByConnect ==
    {"ValueError", "NetMikoAuthenticationException", "NetMikoTimeoutException"}

\* "except NetMikoAuthenticationException:
\*      self._logger.warning(f"Host {str(self)}\t- Authentication failed")":
\* the levels of the entries the handler logs.
auth_failure_log(outcome) ==
    IF outcome = "NetMikoAuthenticationException" THEN << "warning" >> ELSE << >>

\* BaseSSH.connect_ssh_nmiko, given what ConnectHandler(...) and
\* nmiko_ssh_session.enable() do: _ssh_lib_type is set after both returned,
\* and no handler closes a session that ConnectHandler opened.
connect_ssh_nmiko(handler, enable) ==
    IF handler # "ok"
    THEN [ssh_lib_type |-> NoLib, transport |-> "none",
          raised |-> handler \notin HandledByConnect,
          auth_log |-> auth_failure_log(handler)]
    ELSE IF enable # "ok"
    THEN [ssh_lib_type |-> NoLib, transport |-> "open",
          raised |-> enable \notin HandledByConnect,
          auth_log |-> auth_failure_log(enable)]
    ELSE [ssh_lib_type |-> SSH_LIB_NETMIKO, transport |-> "open", raised |-> FALSE,
          auth_log |-> << >>]

\* A run_for_device that goes on to request_all_for_device whatever connect
\* left in host.ssh_lib_type.
after_connect_unguarded(c) == IF c.raised THEN "exception" ELSE "collect"

\* Where run_for_device goes when connect_ssh is over: out with the exception
\* that left it, else "if host.ssh_lib_type:" decides between
\* request_all_for_device and host.disconnect_ssh().
after_connect(c) ==
    IF c.raised THEN "exception"
    ELSE IF c.ssh_lib_type # NoLib THEN "collect"
    ELSE "disconnect"

\* HuaweiCollector.run_for_device: host.connect_ssh(...) and the test of
\* host.ssh_lib_type that follows it. Without a logger the first statement of
\* connect_ssh_nmiko, self._logger.debug, raises before ConnectHandler is
\* called. An exception that leaves connect_ssh ends the task.
Connect(h) ==
    /\ pc[h] = "connect"
    /\ IF ~logger_ok[h]
       THEN /\ pc' = [pc EXCEPT ![h] = "exception"]
            /\ UNCHANGED << ssh_lib_type, transport, connects, auth_log >>
       ELSE \E handler \in LibraryOutcomes, enable \in LibraryOutcomes :
              LET c == connect_ssh_nmiko(handler, enable)
              IN  /\ connects' = [connects EXCEPT ![h] = @ + 1]
                  /\ ssh_lib_type' = [ssh_lib_type EXCEPT ![h] = c.ssh_lib_type]
                  /\ transport' = [transport EXCEPT ![h] = c.transport]
                  /\ auth_log' = [auth_log EXCEPT ![h] = c.auth_log]
                  /\ pc' = [pc EXCEPT ![h] = after_connect(c)]
    /\ UNCHANGED << not_fleet, xlsx, check_list, threads_number, nhosts, ncommands,
                    mainpc, next_host, submits, report, csv_open, logger_ok, requested,
                    results >>

\* results = self.request_all_for_device(host) inside try / except Exception:
\* when the call raises, the exception is logged and results stays unbound.
collect_results(s) == IF s.raised THEN Unbound ELSE Bound(s.properties)

\* What one call of request_all_for_device leaves in run_for_device.
collect_outcome(s) == [requested |-> s.requested, results |-> collect_results(s)]

\* Every outcome of the call under a check list, over all device answers.
CollectOutcomes ==
    [cl \in CheckLists |->
        { collect_outcome(request_all_for_device(NewSession, resp, cl)) :
              resp \in DeviceResponses }]

Collect(h) ==
    /\ pc[h] = "collect"
    /\ \E o \in CollectOutcomes[check_list] :
         /\ requested' = [requested EXCEPT ![h] = o.requested]
         /\ results' = [results EXCEPT ![h] = o.results]
    /\ pc' = [pc EXCEPT ![h] = "disconnect"]
    /\ UNCHANGED << not_fleet, xlsx, auth_log, check_list, threads_number, nhosts, ncommands, mainpc,
                    next_host, submits, report, csv_open, logger_ok, ssh_lib_type,
                    transport, connects >>

\* A disconnect_ssh that lets the exception of session.disconnect() through.
disconnect_ssh_surfacing(lib, conn, disconnected, closed_anyway) ==
    IF lib # SSH_LIB_NETMIKO
    THEN [ssh_lib_type |-> lib, transport |-> conn, raised |-> FALSE]
    ELSE IF disconnected
    THEN [ssh_lib_type |-> NoLib, transport |-> "closed", raised |-> FALSE]
    ELSE [ssh_lib_type |-> lib, raised |-> TRUE,
          transport |-> IF closed_anyway THEN "closed" ELSE conn]

\* BaseSSH.disconnect_ssh: nothing unless _ssh_lib_type is set; else
\* _disconnect_ssh_nmiko, which swallows an exception of session.disconnect()
\* (except Exception: a warning is logged, nothing is raised) and then leaves
\* _ssh_lib_type as it was. Whether a failed disconnect closed the connection
\* is the library's business: either.
disconnect_ssh(lib, conn, disconnected, closed_anyway) ==
    IF lib # SSH_LIB_NETMIKO
    THEN [ssh_lib_type |-> lib, transport |-> conn, raised |-> FALSE]
    ELSE IF disconnected
    THEN [ssh_lib_type |-> NoLib, transport |-> "closed", raised |-> FALSE]
    ELSE [ssh_lib_type |-> lib, raised |-> FALSE,
          transport |-> IF closed_anyway THEN "closed" ELSE conn]

Disconnect(h) ==
    /\ pc[h] = "disconnect"
    /\ \E disconnected \in BOOLEAN, closed_anyway \in BOOLEAN :
         LET d == disconnect_ssh(ssh_lib_type[h], transport[h], disconnected,
                                 closed_anyway)
         IN  /\ ssh_lib_type' = [ssh_lib_type EXCEPT ![h] = d.ssh_lib_type]
             /\ transport' = [transport EXCEPT ![h] = d.transport]
             /\ pc' = [pc EXCEPT ![h] = IF d.raised THEN "exception" ELSE "write"]
    /\ UNCHANGED << not_fleet, xlsx, auth_log, check_list, threads_number, nhosts, ncommands, mainpc,
                    next_host, submits, report, csv_open, logger_ok, connects, requested,
                    results >>

\* A write step that gives get_report_row an empty dict when results is
\* unbound, and so writes a row of 'Error' cells.
report_after_write_sentinels(rep, h, res, written) ==
    IF written THEN Append(rep, DataRow(h, get_report_row(res.value))) ELSE rep

\* self.csv.write_row(self.get_report_row(results)) inside its try: reading the
\* unbound results raises the UnboundLocalError the first except clause
\* passes over, and an exception of the writer is logged.
report_after_write(rep, h, res, written) ==
    IF res.bound /\ written THEN Append(rep, DataRow(h, get_report_row(res.value)))
    ELSE rep

\* The two log statements that end run_for_device: the first formats results
\* and raises the UnboundLocalError again, outside any try, when it is unbound.
task_end(res) == IF res.bound THEN "returned" ELSE "exception"

WriteRow(h) ==
    /\ pc[h] = "write"
    /\ \E written \in BOOLEAN :
         report' = report_after_write(report, h, results[h], written)
    /\ pc' = [pc EXCEPT ![h] = task_end(results[h])]
    /\ UNCHANGED << not_fleet, xlsx, auth_log, check_list, threads_number, nhosts, ncommands, mainpc,
                    next_host, submits, csv_open, logger_ok, ssh_lib_type, transport,
                    connects, requested, results >>

Next ==
    \/ WriteHeader
    \/ CreateExecutor
    \/ Submit
    \/ ExecutorShutdown
    \/ DelCsv
    \/ OpenReport
    \/ SaveXlsx
    \/ \E h \in Hosts : StartTask(h)
    \/ \E h \in Hosts : Connect(h)
    \/ \E h \in Hosts : Collect(h)
    \/ \E h \in Hosts : Disconnect(h)
    \/ \E h \in Hosts : WriteRow(h)

Spec == Init /\ [][Next]_vars

\* The steps of the main thread, and those of the task of host h on its worker.
MainThread ==
    WriteHeader \/ CreateExecutor \/ Submit \/ ExecutorShutdown \/ DelCsv
        \/ OpenReport \/ SaveXlsx

HostTask(h) ==
    /\ h \in Hosts
    /\ (StartTask(h) \/ Connect(h) \/ Collect(h) \/ Disconnect(h) \/ WriteRow(h))

\* The same run where every thread that can take a step eventually takes one:
\* the main thread and the workers are scheduled by the interpreter, and every
\* network operation of a task returns or fails.
SpecLive ==
    /\ Init
    /\ [][Next]_vars
    /\ WF_vars(MainThread)
    /\ \A h \in 1..MaxHosts : WF_vars(HostTask(h))

\* ================================================================== SpecRow
\* HuaweiCollector.get_report_row applied to a dict of collected results.

\* The keys the requests of request_all_for_device put into properties, grouped
\* as they are set together.
KeyGroups ==
    { {"hostname", "software_version", "patch_version", "hardware", "uptime"},
      {"geo"}, {"segment"}, {"role", "mgmt_ip"}, {"stack_info"},
      {"capacity", "in_used"}, ROUTES_KEYS,
      {"dot1x_users_number", "mab_users_number"}, {"esn_chassis"},
      {"main_boards_list"}, {"vrf"}, {"memory_usage"}, {"updated"} }

\* The dicts get_report_row is applied to: any of the groups collected.
HostInfos == { [k \in UNION groups |-> Extracted] : groups \in SUBSET KeyGroups }

InitRow ==
    /\ FleetIdle
    /\ CsvIdle
    /\ DeviceIdle
    /\ SshIdle
    /\ PlatformIdle
    /\ host_info \in HostInfos
    /\ row = << >>
    /\ row_done = FALSE
    /\ LogIdle
    /\ UptimeIdle
    /\ ConnIdle
    /\ HostsIdle

GetReportRow ==
    /\ ~row_done
    /\ row' = get_report_row(host_info)
    /\ row_done' = TRUE
    /\ UNCHANGED << not_row, host_info >>

NextRow == GetReportRow

SpecRow == InitRow /\ [][NextRow]_vars

\* ================================================================== SpecCsv
\* Threads that call ReporterCsv.write_row on writers that share the module's
\* CSV_WRITER_LOCK. writerow is not atomic: it is modelled cell by cell.
Writers == DOMAIN wpc

\* The cells of the row a writer passes to write_row.
RowOf(t, number, length) ==
    [i \in 1..length |->
        [writer |-> t, number |-> number, cell |-> i, length |-> length]]

InitCsv ==
    /\ FleetIdle
    /\ RowIdle
    /\ DeviceIdle
    /\ SshIdle
    /\ PlatformIdle
    /\ lock = 0
    /\ \E n \in 1..MaxWriters :
         /\ wpc = [t \in 1..n |-> "idle"]
         /\ wleft \in [1..n -> 0..MaxRows]
         /\ wrow = [t \in 1..n |-> << >>]
         /\ wcell = [t \in 1..n |-> 0]
    /\ file = << >>
    /\ LogIdle
    /\ UptimeIdle
    /\ ConnIdle
    /\ HostsIdle

\* An acquire that never blocks.
acquired_always == TRUE

\* threading.Lock.acquire, as "with CSV_WRITER_LOCK" calls it: blocks while the
\* lock is held.
acquired == lock = 0

\* write_row up to the call of writerow: the lock is taken.
EnterWriteRow(t) ==
    /\ wpc[t] = "idle"
    /\ wleft[t] > 0
    /\ acquired
    /\ lock' = t
    /\ \E length \in 1..MaxCells :
         wrow' = [wrow EXCEPT ![t] = RowOf(t, wleft[t], length)]
    /\ wcell' = [wcell EXCEPT ![t] = 0]
    /\ wpc' = [wpc EXCEPT ![t] = "writerow"]
    /\ UNCHANGED << not_csv, wleft, file >>

\* self._writer.writerow(row), one cell of it reaching the file.
WriterowCell(t) ==
    /\ wpc[t] = "writerow"
    /\ wcell[t] < Len(wrow[t])
    /\ file' = Append(file, wrow[t][wcell[t] + 1])
    /\ wcell' = [wcell EXCEPT ![t] = @ + 1]
    /\ UNCHANGED << not_csv, lock, wpc, wrow, wleft >>

\* The end of the with block after writerow returned: the lock is released.
LeaveWriteRow(t) ==
    /\ wpc[t] = "writerow"
    /\ wcell[t] = Len(wrow[t])
    /\ lock' = 0
    /\ wpc' = [wpc EXCEPT ![t] = "idle"]
    /\ wleft' = [wleft EXCEPT ![t] = @ - 1]
    /\ UNCHANGED << not_csv, wrow, wcell, file >>

\* writerow raises before it writes (csv.Error): the with block releases the
\* lock and the exception leaves write_row.
WriterowRaises(t) ==
    /\ wpc[t] = "writerow"
    /\ wcell[t] = 0
    /\ lock' = 0
    /\ wpc' = [wpc EXCEPT ![t] = "idle"]
    /\ wleft' = [wleft EXCEPT ![t] = @ - 1]
    /\ UNCHANGED << not_csv, wrow, wcell, file >>

NextCsv ==
    \/ \E t \in Writers : EnterWriteRow(t)
    \/ \E t \in Writers : WriterowCell(t)
    \/ \E t \in Writers : LeaveWriteRow(t)
    \/ \E t \in Writers : WriterowRaises(t)

SpecCsv == InitCsv /\ [][NextCsv]_vars

\* =============================================================== SpecDevice
\* HuaweiCollector.request_all_for_device on one connected host, request by
\* request: the device answers as `device` says, the check list is `enabled`.
InitDevice ==
    /\ FleetIdle
    /\ RowIdle
    /\ CsvIdle
    /\ SshIdle
    /\ PlatformIdle
    /\ device \in DeviceResponses
    /\ enabled \in CheckLists
    /\ session = NewSession
    /\ LogIdle
    /\ UptimeIdle
    /\ ConnIdle
    /\ HostsIdle

\* The next request of request_all_for_device; none after one has raised.
RequestNext ==
    /\ ~session.raised
    /\ session.requested < Len(REQUESTS)
    /\ session' = then_request(session, session.requested + 1, device, enabled)
    /\ UNCHANGED << not_device, device, enabled >>

NextDevice == RequestNext

SpecDevice == InitDevice /\ [][NextDevice]_vars

\* The commands sent by the function HUAWEI_FUNCTIONS names for a check, for
\* the checks whose function request_all_for_device calls.
CheckCommands ==
    [c \in {"common", "stack", "esn_chassis", "main_boards_list", "mac_summary",
            "routes_summary", "access_users_mab", "access_users_dot1x", "vrf"} |->
        CASE c = "common" -> {DISPLAY_VERSION, DISPLAY_PATCH, DISPLAY_SYSNAME}
          [] c = "stack" -> {DISPLAY_STACK}
          [] c = "esn_chassis" -> {DISPLAY_CHASSIS_ESN}
          [] c = "main_boards_list" -> {DISPLAY_DEVICE}
          [] c = "mac_summary" -> {DISPLAY_MAC_SUMMARY}
          [] c = "routes_summary" -> {DISPLAY_ROUTES_SUMMARY}
          [] c = "access_users_mab" -> {DISPLAY_MAC_USERS}
          [] c = "access_users_dot1x" -> {DISPLAY_DOT1X_USERS}
          [] OTHER -> {DISPLAY_IP_VRF}]

\* The commands sent to the device so far.
Sent == { session.sent[i] : i \in 1..Len(session.sent) }

\* request_all_for_device has returned or raised.
DeviceDone == session.raised \/ session.requested = Len(REQUESTS)

\* ================================================================== SpecSsh
\* A client that calls BaseSSH.send_command for a list of calls, one after the
\* other, as the loops of BaseCollector.run_for_device and
\* BaseSSH.send_commands and the requests of HuaweiSSH do.
CommandTexts == {"display version", "display elabel"}

\* The keyword arguments of a call: none; expect_string='' and prompt='' (what
\* HuaweiCE.get_request_esn_full_command gives); or '[Y/N]' and 'y' (HuaweiS).
Kwargs == {"none", "empty", "prompt"}

Calls == [command : CommandTexts, kwargs : Kwargs]

CallLists == UNION { [1..n -> Calls] : n \in 0..MaxCalls }

\* The objects a client can hold. Without a logger (malformed address) no
\* connect returns; connect_ssh_pmiko sets _ssh_lib_type before invoke_shell,
\* whose exception it handles, so a Paramiko object may lack ssh_channell.
SshObjects ==
    { o \in [lib_type : {NoLib, SSH_LIB_NETMIKO, SSH_LIB_PARAMIKO},
             logger : BOOLEAN, channel : BOOLEAN] :
        /\ o.lib_type # NoLib => o.logger
        /\ o.channel => o.lib_type = SSH_LIB_PARAMIKO }

InitSsh ==
    /\ FleetIdle
    /\ RowIdle
    /\ CsvIdle
    /\ DeviceIdle
    /\ PlatformIdle
    /\ \E o \in SshObjects :
         /\ lib_type = o.lib_type
         /\ logger = o.logger
         /\ channel = o.channel
    /\ calls \in CallLists
    /\ position = 0
    /\ exchange = "idle"
    /\ wire = << >>
    /\ outputs = << >>
    /\ LogIdle
    /\ UptimeIdle
    /\ ConnIdle
    /\ HostsIdle

\* What a call writes to the transport, and what it reads from it.
Written(call, kind, text) ==
    [dir |-> "out", call |-> call, kind |-> kind, text |-> text, matched |-> FALSE]
Read(call, matched) ==
    [dir |-> "in", call |-> call, kind |-> "output", text |-> << >>,
     matched |-> matched]

\* The call a client makes after the calls that returned, in list order; a
\* variant takes the list from its end.
next_call_from_end == Len(calls) - position
next_call == position + 1

\* A call is due: the one before it has returned and none has raised.
CallDue == exchange = "idle" /\ position < Len(calls)

\* send_command when _ssh_lib_type is None: self._logger.error(...) and '',
\* an AttributeError when the object has no logger.
SendCommandNoSession ==
    /\ CallDue
    /\ lib_type = NoLib
    /\ IF logger
       THEN /\ outputs' = Append(outputs, << >>)
            /\ position' = position + 1
            /\ UNCHANGED exchange
       ELSE /\ exchange' = "raised"
            /\ UNCHANGED << outputs, position >>
    /\ UNCHANGED << not_ssh, lib_type, logger, channel, calls, wire >>

\* send_command on a Paramiko object: send_command_pmiko(command, **kwargs)
\* has no parameter expect_string or prompt (TypeError); without ssh_channell
\* the AttributeError is handled and '' returned; else ' ' + command + '\n' is
\* sent, unless send itself raises (socket.error is not handled).
SendCommandPmiko ==
    /\ CallDue
    /\ lib_type = SSH_LIB_PARAMIKO
    /\ LET c == calls[next_call]
       IN  IF c.kwargs # "none"
           THEN /\ exchange' = "raised"
                /\ UNCHANGED << outputs, position, wire >>
           ELSE IF ~channel
           THEN /\ outputs' = Append(outputs, << >>)
                /\ position' = position + 1
                /\ UNCHANGED << exchange, wire >>
           ELSE \/ /\ wire' = Append(wire, Written(next_call, "command",
                                                   << " ", c.command, "\n" >>))
                   /\ exchange' = "recv"
                   /\ UNCHANGED << outputs, position >>
                \/ /\ exchange' = "raised"
                   /\ UNCHANGED << outputs, position, wire >>
    /\ UNCHANGED << not_ssh, lib_type, logger, channel, calls >>

\* send_command_pmiko after the sleep: recv(length).decode(...) is returned; an
\* exception of recv or decode is no AttributeError and leaves send_command.
PmikoRecv ==
    /\ exchange = "recv"
    /\ \/ /\ wire' = Append(wire, Read(next_call, FALSE))
          /\ outputs' = Append(outputs, << Len(wire) + 1 >>)
          /\ position' = position + 1
          /\ exchange' = "idle"
       \/ /\ exchange' = "raised"
          /\ UNCHANGED << outputs, position, wire >>
    /\ UNCHANGED << not_ssh, lib_type, logger, channel, calls >>

\* send_command_nmiko up to the first write: with expect_string and prompt both
\* truthy the command goes out through send_command_expect, else through
\* send_command; an exception of the library before it wrote is handled: ''.
SendCommandNmiko ==
    /\ CallDue
    /\ lib_type = SSH_LIB_NETMIKO
    /\ LET c == calls[next_call]
       IN  \/ /\ wire' = Append(wire, Written(next_call, "command", << c.command >>))
              /\ exchange' = IF c.kwargs = "prompt" THEN "expect" ELSE "reply"
              /\ UNCHANGED << outputs, position >>
           \/ /\ outputs' = Append(outputs, << >>)
              /\ position' = position + 1
              /\ UNCHANGED << exchange, wire >>
    /\ UNCHANGED << not_ssh, lib_type, logger, channel, calls >>

\* nmiko_ssh_session.send_command(command) returns the output, or raises (read
\* timeout) and the handler returns ''.
NmikoReply ==
    /\ exchange = "reply"
    /\ \/ /\ wire' = Append(wire, Read(next_call, TRUE))
          /\ outputs' = Append(outputs, << Len(wire) + 1 >>)
       \/ /\ outputs' = Append(outputs, << >>)
          /\ UNCHANGED wire
    /\ position' = position + 1
    /\ exchange' = "idle"
    /\ UNCHANGED << not_ssh, lib_type, logger, channel, calls >>

\* send_command_expect(command, expect_string) returns once the pattern is in
\* what it read; when the pattern does not come it raises and the handler of
\* send_command_nmiko returns ''.
NmikoExpect ==
    /\ exchange = "expect"
    /\ \/ /\ wire' = Append(wire, Read(next_call, TRUE))
          /\ exchange' = "prompt"
          /\ UNCHANGED << outputs, position >>
       \/ /\ wire' = Append(wire, Read(next_call, FALSE))
          /\ outputs' = Append(outputs, << >>)
          /\ position' = position + 1
          /\ exchange' = "idle"
    /\ UNCHANGED << not_ssh, lib_type, logger, channel, calls >>

\* send_command_nmiko_with_prompt is past its first send_command_expect.
expect_returned == exchange = "prompt"

\* send_command_expect(prompt, r'\>|\]'), its write.
NmikoPrompt ==
    /\ expect_returned
    /\ wire' = Append(wire, Written(next_call, "response", << "y" >>))
    /\ exchange' = "prompt_sent"
    /\ UNCHANGED << not_ssh, lib_type, logger, channel, calls, position, outputs >>

\* The second send_command_expect returns and output + its output is
\* returned, or it raises and the handler returns ''.
NmikoPromptReply ==
    /\ exchange = "prompt_sent"
    /\ \/ /\ wire' = Append(wire, Read(next_call, TRUE))
          /\ outputs' = Append(outputs, << Len(wire) - 1, Len(wire) + 1 >>)
       \/ /\ outputs' = Append(outputs, << >>)
          /\ UNCHANGED wire
    /\ position' = position + 1
    /\ exchange' = "idle"
    /\ UNCHANGED << not_ssh, lib_type, logger, channel, calls >>

NextSsh ==
    \/ SendCommandNoSession
    \/ SendCommandPmiko
    \/ PmikoRecv
    \/ SendCommandNmiko
    \/ NmikoReply
    \/ NmikoExpect
    \/ NmikoPrompt
    \/ NmikoPromptReply

SpecSsh == InitSsh /\ [][NextSsh]_vars

\* ============================================================= SpecPlatform
\* The property HuaweiSSH.hardware_platform read on an object whose hardware
\* text is set. A text is the sequence of its characters.
TextChars == {"C", "E", "S", "U", "G", "6", "-"}
Digits == {"6"}

HardwareStrings == UNION { [1..n -> TextChars] : n \in 1..MaxText }

\* re.search of a pattern without metacharacters: the text contains it.
contains(text, literal) ==
    \E i \in 1..(Len(text) - Len(literal) + 1) :
        SubSeq(text, i, i + Len(literal) - 1) = literal

\* re.search(HARDWARE_PLATFORMS[name], text): r'CE', r'S\d+', r'USG'; the
\* search is case sensitive.
re_search(name, text) ==
    CASE name = "CE" -> contains(text, << "C", "E" >>)
      [] name = "S" -> \E i \in 1..(Len(text) - 1) :
                          text[i] = "S" /\ text[i + 1] \in Digits
      [] OTHER -> contains(text, << "U", "S", "G" >>)

\* The platforms whose pattern a text matches.
matched_platforms(text) ==
    { HARDWARE_PLATFORMS[i] : i \in { j \in 1..Len(HARDWARE_PLATFORMS) :
                                         re_search(HARDWARE_PLATFORMS[j], text) } }

InitPlatform ==
    /\ FleetIdle
    /\ RowIdle
    /\ CsvIdle
    /\ DeviceIdle
    /\ SshIdle
    /\ hardware_text \in HardwareStrings
    /\ platform = "unset"
    /\ LogIdle
    /\ UptimeIdle
    /\ ConnIdle
    /\ HostsIdle

HardwarePlatform ==
    /\ platform = "unset"
    /\ platform' = hardware_platform(matched_platforms(hardware_text))
    /\ UNCHANGED << not_platform, hardware_text >>

NextPlatform == HardwarePlatform

SpecPlatform == InitPlatform /\ [][NextPlatform]_vars


\* ================================================================== SpecLog
\* The per-host loggers of concurrently running host tasks: BaseSSH.__init__
\* and BaseSSH.log_command.
MaxLogTasks == 2
MaxLogCommands == 1

LogTasks == 1..MaxLogTasks

\* The hostnames of the lines of the hosts file; nothing keeps two lines from
\* naming the same host.
HostNames == {"sw1", "sw2"}

NoLogger == [exists |-> FALSE, propagate |-> TRUE, handlers |-> 0, users |-> {}]

InitLog ==
    /\ task_name \in [LogTasks -> HostNames]
    /\ lpc = [t \in LogTasks |-> "new"]
    /\ lleft = [t \in LogTasks |-> MaxLogCommands]
    /\ loggers = [n \in HostNames |-> NoLogger]
    /\ propagated = [t \in LogTasks |-> FALSE]
    /\ FleetIdle
    /\ RowIdle
    /\ CsvIdle
    /\ DeviceIdle
    /\ SshIdle
    /\ PlatformIdle
    /\ UptimeIdle
    /\ ConnIdle
    /\ HostsIdle

\* LoggingSettings.get_logger with a parent logger:
\* settings['parent_logger'].getChild(settings['logger_name']) returns the one
\* logger the logging module keeps under that name, so the tasks that use the
\* logger named n are all the tasks created with that name.
get_logger(t, n) == IF n = task_name[t] THEN loggers[n].users \cup {t} ELSE {}

\* BaseSSH.__init__: logger_name is str(self); get_logger sets propagate and
\* adds a file handler to the logger.
NewHost(t) ==
    /\ lpc[t] = "new"
    /\ loggers' = [loggers EXCEPT ![task_name[t]] =
                      [exists |-> TRUE, propagate |-> TRUE,
                       handlers |-> @.handlers + 1,
                       users |-> get_logger(t, task_name[t])]]
    /\ lpc' = [lpc EXCEPT ![t] = "ready"]
    /\ UNCHANGED << not_log, task_name, lleft, propagated >>

\* BaseSSH.log_command, its first statement: self._logger.propagate = False
LogCommandBegin(t) ==
    /\ lpc[t] = "ready"
    /\ lleft[t] > 0
    /\ loggers' = [loggers EXCEPT ![task_name[t]].propagate = FALSE]
    /\ lpc' = [lpc EXCEPT ![t] = "in_command"]
    /\ UNCHANGED << not_log, task_name, lleft, propagated >>

\* BaseSSH.log_command: self._logger.warning(...) of the command and its
\* output; the logging module reads propagate to decide whether the record
\* goes on to the handlers of the parent.
LogCommandWrite(t) ==
    /\ lpc[t] = "in_command"
    /\ propagated' = [propagated EXCEPT ![t] = @ \/ loggers[task_name[t]].propagate]
    /\ lpc' = [lpc EXCEPT ![t] = "written"]
    /\ UNCHANGED << not_log, task_name, lleft, loggers >>

\* BaseSSH.log_command, its last statement: self._logger.propagate = True
LogCommandEnd(t) ==
    /\ lpc[t] = "written"
    /\ loggers' = [loggers EXCEPT ![task_name[t]].propagate = TRUE]
    /\ lleft' = [lleft EXCEPT ![t] = @ - 1]
    /\ lpc' = [lpc EXCEPT ![t] = "ready"]
    /\ UNCHANGED << not_log, task_name, propagated >>

NextLog ==
    \/ \E t \in LogTasks : NewHost(t)
    \/ \E t \in LogTasks : LogCommandBegin(t)
    \/ \E t \in LogTasks : LogCommandWrite(t)
    \/ \E t \in LogTasks : LogCommandEnd(t)

SpecLog == InitLog /\ [][NextLog]_vars


\* =============================================================== SpecUptime
\* HuaweiSSH.convert_uptime_to_since_date applied, twice, to one uptime text.
MaxUptimeTokens == 2
MaxCount == 2
MaxTicks == 2

\* The wall clock advances in ticks of half a minute; strftime('%H:%M') keeps
\* whole minutes.
TicksPerMinute == 2
MinutesPerDay == 1440

\* The words that follow a number in the uptime part of 'display version',
\* e.g. "0 week, 1 day, 2 hours, 1 minute".
PeriodNames ==
    {"weeks", "week", "days", "day", "hours", "hour", "minutes", "minute"}

\* What re.findall(r'(?P<number>\d+)\s+(?P<period_name>\w+)', uptime_period)
\* returns for the uptime texts.
UptimeMatches ==
    UNION { [1..n -> (0..MaxCount) \X PeriodNames] : n \in 0..MaxUptimeTokens }

\* days_multiply, the inner function: words.get(word, 0)
days_multiply(word) ==
    CASE word \in {"weeks", "week"} -> 7
      [] word \in {"day", "days"} -> 1
      [] OTHER -> 0

\* minutes_multiply, the inner function, whose words are 'hour', 'hours',
\* 'munites' and 'minutes'.
minutes_multiply(word) ==
    CASE word \in {"hour", "hours"} -> 60
      [] word \in {"munites", "minutes"} -> 1
      [] OTHER -> 0

RECURSIVE sum_of(_, _, _)
\* "for match in matches: total += int(match[0]) * multiply(match[1])" for one
\* of the two inner functions ("days" or "minutes").
sum_of(matches, unit, i) ==
    IF i > Len(matches) THEN 0
    ELSE matches[i][1] * (IF unit = "days" THEN days_multiply(matches[i][2])
                          ELSE minutes_multiply(matches[i][2]))
         + sum_of(matches, unit, i + 1)

\* date_shift.strftime("%Y-%m-%d (%a) %H:%M") of a time given in ticks: the
\* minute it lies in.
strftime(ticks) == ticks \div TicksPerMinute

NotAvailable == [kind |-> "N/A", minute |-> 0]

\* HuaweiSSH.convert_uptime_to_since_date, given what datetime.now() returns.
convert_uptime_to_since_date(matches, now) ==
    LET days == sum_of(matches, "days", 1)
        minutes == sum_of(matches, "minutes", 1)
    IN  IF days # 0 \/ minutes # 0
        THEN [kind |-> "date",
              minute |-> strftime(now - TicksPerMinute
                                          * (days * MinutesPerDay + minutes))]
        ELSE NotAvailable

InitUptime ==
    /\ uptime_text \in UptimeMatches
    /\ clock = 0
    /\ since = << >>
    /\ FleetIdle
    /\ RowIdle
    /\ CsvIdle
    /\ DeviceIdle
    /\ SshIdle
    /\ PlatformIdle
    /\ LogIdle
    /\ ConnIdle
    /\ HostsIdle

\* Time passes between two runs of the extraction.
Tick ==
    /\ clock < MaxTicks
    /\ clock' = clock + 1
    /\ UNCHANGED << not_uptime, uptime_text, since >>

\* One run of the extraction of the uptime field on the captured text
\* (request_common_info with flag_uptime_since).
ConvertUptime ==
    /\ Len(since) < 2
    /\ since' = Append(since, convert_uptime_to_since_date(uptime_text, clock))
    /\ UNCHANGED << not_uptime, uptime_text, clock >>

NextUptime == Tick \/ ConvertUptime

SpecUptime == InitUptime /\ [][NextUptime]_vars


\* ================================================================= SpecConn
\* One BaseSSH object (created with a valid address) under a sequence of
\* connect_ssh, send_command and disconnect_ssh calls.
MaxOps == 3

\* What a call of the Paramiko library does.
PmikoOutcomes == {"ok", "TimeoutError", "AuthenticationException", "Exception"}

\* BaseSSH.connect_ssh_pmiko, given what SSHClient.connect and invoke_shell
\* (with the first recv) do: TimeoutError and AuthenticationException are
\* logged and the method returns, any other exception of connect leaves it;
\* _ssh_lib_type is set as soon as connect returned, and an exception of
\* invoke_shell is logged and swallowed.
connect_ssh_pmiko(connected, invoked) ==
    IF connected # "ok"
    THEN [ssh_lib_type |-> NoLib, transport |-> "none", shell |-> FALSE,
          raised |-> connected = "Exception"]
    ELSE [ssh_lib_type |-> SSH_LIB_PARAMIKO, transport |-> "open",
          shell |-> invoked = "ok", raised |-> FALSE]

InitConn ==
    /\ use_lib \in {SSH_LIB_NETMIKO, SSH_LIB_PARAMIKO}
    /\ conn_type = NoLib
    /\ conn_open = "none"
    /\ shell = FALSE
    /\ ops = << >>
    /\ FleetIdle
    /\ RowIdle
    /\ CsvIdle
    /\ DeviceIdle
    /\ SshIdle
    /\ PlatformIdle
    /\ LogIdle
    /\ UptimeIdle
    /\ HostsIdle

\* How a connect call ended, for the record of calls.
connect_op(c) ==
    IF c.ssh_lib_type # NoLib THEN "connected"
    ELSE IF c.raised THEN "connect_raised"
    ELSE "connect_failed"

\* BaseSSH.connect_ssh on an object without a session: connect_ssh_nmiko when
\* a device type is given, else connect_ssh_pmiko.
ConnectSsh ==
    /\ Len(ops) < MaxOps
    /\ conn_type = NoLib
    /\ conn_open # "open"
    /\ IF use_lib = SSH_LIB_NETMIKO
       THEN \E handler \in LibraryOutcomes, enable \in LibraryOutcomes :
              LET c == connect_ssh_nmiko(handler, enable)
              IN  /\ conn_type' = c.ssh_lib_type
                  /\ conn_open' = c.transport
                  /\ shell' = FALSE
                  /\ ops' = Append(ops, connect_op(c))
       ELSE \E connected \in PmikoOutcomes, invoked \in PmikoOutcomes :
              LET c == connect_ssh_pmiko(connected, invoked)
              IN  /\ conn_type' = c.ssh_lib_type
                  /\ conn_open' = c.transport
                  /\ shell' = c.shell
                  /\ ops' = Append(ops, connect_op(c))
    /\ UNCHANGED << not_conn, use_lib >>

\* BaseSSH.send_command: whatever it sends and returns, it assigns neither
\* _ssh_lib_type nor the session.
SendCommand ==
    /\ Len(ops) < MaxOps
    /\ ops' = Append(ops, "sent")
    /\ UNCHANGED << not_conn, use_lib, conn_type, conn_open, shell >>

\* BaseSSH.disconnect_ssh: _disconnect_ssh_nmiko for a Netmiko session;
\* _disconnect_ssh_pmiko calls self.ssh_connection.close() on an attribute
\* that no method sets, and handles the AttributeError with a warning, so the
\* Paramiko session stays open and _ssh_lib_type stays set.
DisconnectSsh ==
    /\ Len(ops) < MaxOps
    /\ \E disconnected \in BOOLEAN, closed_anyway \in BOOLEAN :
         LET d == disconnect_ssh(conn_type, conn_open, disconnected, closed_anyway)
         IN  /\ conn_type' = d.ssh_lib_type
             /\ conn_open' = d.transport
    /\ ops' = Append(ops, "disconnected")
    /\ UNCHANGED << not_conn, use_lib, shell >>

NextConn == ConnectSsh \/ SendCommand \/ DisconnectSsh

SpecConn == InitConn /\ [][NextConn]_vars


\* ================================================================ SpecHosts
\* BaseCollector.iter_hosts_from_file over the lines of a hosts file.
MaxLines == 2
MaxLineTokens == 3

\* A line is a sequence of pieces of text that follow each other without
\* white space: a comment sign, a name, a comma, a dotted quad that is an IPv4
\* address and one that is not.
LineTokens == {"#", ";", "sw1", ",", "10.0.0.1", "999.0.0.1"}

\* The pieces r'\d+\.\d+\.\d+\.\d+' matches.
DottedQuads == {"10.0.0.1", "999.0.0.1"}

\* The lines of a hosts file; two dotted quads never follow each other
\* directly (their digits would run together).
HostLines ==
    { l \in UNION { [1..n -> LineTokens] : n \in 0..MaxLineTokens } :
        \A i \in 1..(Len(l) - 1) : ~(l[i] \in DottedQuads /\ l[i + 1] \in DottedQuads) }

HostFiles == UNION { [1..n -> HostLines] : n \in 0..MaxLines }

\* re.search(DEVICES_LST_LINE_REGEX, line) on a line without white space:
\* (?P<hostname>\S+) starts at the first piece and, being greedy, runs up to
\* the last comma that a dotted quad follows; .* takes the rest of the line.
\* No match when no comma is followed by a dotted quad. The result is the
\* sequence of the hosts found: none or one.
re_search_line(l) ==
    LET ends == { j \in 1..(Len(l) - 2) : l[j + 1] = "," /\ l[j + 2] \in DottedQuads }
    IN  IF ends = {} THEN << >>
        ELSE LET j == CHOOSE e \in ends : \A f \in ends : f <= e
             IN  << [hostname |-> SubSeq(l, 1, j), mgmt_ip |-> l[j + 2]] >>

\* BaseCollector.get_host_from_line(line, regex, comment_sign): the test is
\* line.startswith('#'), whatever comment_sign is; the AttributeError of a
\* line without match is handled and None returned (here: no host).
get_host_from_line(l, sign) ==
    IF Len(l) > 0 /\ l[1] = "#" THEN << >> ELSE re_search_line(l)

InitHosts ==
    /\ comment_sign \in {"#", ";"}
    /\ host_lines \in HostFiles
    /\ line_no = 0
    /\ hosts_read = << >>
    /\ FleetIdle
    /\ RowIdle
    /\ CsvIdle
    /\ DeviceIdle
    /\ SshIdle
    /\ PlatformIdle
    /\ LogIdle
    /\ UptimeIdle
    /\ ConnIdle

\* iter_hosts_from_file, one turn of "for line in f.readlines()": the host of
\* the line is yielded unless it is None.
ReadLine ==
    /\ line_no < Len(host_lines)
    /\ line_no' = line_no + 1
    /\ hosts_read' =
           hosts_read \o get_host_from_line(host_lines[line_no + 1], comment_sign)
    /\ UNCHANGED << not_hosts, comment_sign, host_lines >>

NextHosts == ReadLine

SpecHosts == InitHosts /\ [][NextHosts]_vars

\* =================================================================== claims
\* The data rows of host h in the report.
RowsOf(h) == { i \in 1..Len(report) : report[i].kind = "row" /\ report[i].host = h }

\* The connect step of h succeeded: host.ssh_lib_type was set when connect_ssh
\* returned, so run_for_device went on to request_all_for_device.
Connected(h) == pc[h] = "collect" \/ requested[h] > 0

\* The connect step of h is over and did not succeed.
ConnectFailed(h) ==
    /\ pc[h] \in {"disconnect", "write"} \cup EndedPcs
    /\ requested[h] = 0

\* The main thread has left BaseCollector.run.
RunEnded == mainpc \in {"del_csv", "returned", "exception"}

\* C1: under SpecRow, the row get_report_row returns has one cell per key of
\* COLUMNS_HEADER, in that order, the cell of a key absent from the collected
\* results is "Error", and the row is as long as the header row.
C1_RowMatchesSchema ==
    row_done =>
        /\ Len(row) = Len(COLUMNS_HEADER)
        /\ Len(row) = Len(get_report_header)
        /\ \A i \in 1..Len(COLUMNS_HEADER) :
             row[i] = IF COLUMNS_HEADER[i] \in DOMAIN host_info
                      THEN host_info[COLUMNS_HEADER[i]]
                      ELSE "Error"

\* C1: a row was built from results that hold some columns and miss others.
C1_PartialResultsRow ==
    /\ row_done
    /\ \E i \in 1..Len(row) : row[i] = "Error"
    /\ \E i \in 1..Len(row) : COLUMNS_HEADER[i] \in DOMAIN host_info

\* C2: when run_for_files has returned, the report holds exactly one data row
\* for each host whose connect step succeeded, and no other data row.
C2_OneRowPerConnectedHost ==
    mainpc = "returned" =>
        \A h \in Hosts :
            Cardinality(RowsOf(h)) = IF Connected(h) THEN 1 ELSE 0

\* C3: a host whose connect step failed has no row in the report.
C3_NoRowWithoutConnect ==
    \A h \in Hosts : ConnectFailed(h) => RowsOf(h) = {}

\* C3: a task whose ConnectHandler call failed has passed its write step and
\* ended.
C3_FailedConnectTaskEnded ==
    \E h \in Hosts :
        /\ ConnectFailed(h)
        /\ connects[h] = 1
        /\ pc[h] \in EndedPcs

\* C4: for a connected host every request of request_all_for_device runs, also
\* after one of them failed, and the host's task ends with a row written.
C4_LaterChecksStillRun ==
    \A h \in Hosts :
        requested[h] > 0 =>
            /\ requested[h] = Len(REQUESTS)
            /\ pc[h] \in EndedPcs => RowsOf(h) # {}

\* C5: the run leaves the executor only when every host was submitted and its
\* task has run to its end, whichever tasks raised; no task's exception reaches
\* the main thread; and until the run ends some step is always possible.
C5_HostFailuresStayLocal ==
    /\ mainpc \in {"del_csv", "returned"} =>
           \A h \in Hosts : submits[h] = 1 /\ pc[h] \in EndedPcs
    /\ mainpc = "exception" => ~executor_created(threads_number)
    /\ mainpc \notin {"returned", "exception"} => ENABLED Next

\* C5: with one worker, the first host's task raised in connect and the second
\* host was still connected and its results requested before the run returned.
C5_LaterHostRunsAfterFailure ==
    /\ mainpc = "returned"
    /\ threads_number.value = 1
    /\ \E g \in Hosts, h \in Hosts :
         /\ g < h
         /\ pc[g] = "exception" /\ requested[g] = 0
         /\ requested[h] > 0

\* C6: never more tasks run than threads_number, no host is submitted twice,
\* and when run is over every host of the list has been submitted once.
C6_PoolBoundAndOneTaskPerHost ==
    /\ Cardinality(Running) <= threads_number.value
    /\ \A h \in Hosts : submits[h] <= 1
    /\ RunEnded => \A h \in Hosts : submits[h] = 1

\* C7: under SpecCsv, at most one thread is inside writerow, it holds the lock,
\* and the cells of every row lie in the file in order and next to each other:
\* a row starts only after the row before it is complete.
C7_RowWritesExclusive ==
    /\ Cardinality({ t \in Writers : wpc[t] = "writerow" }) <= 1
    /\ \A t \in Writers : wpc[t] = "writerow" => lock = t
    /\ \A i \in 1..Len(file) :
         IF file[i].cell > 1
         THEN /\ i > 1
              /\ file[i - 1].writer = file[i].writer
              /\ file[i - 1].number = file[i].number
              /\ file[i - 1].cell = file[i].cell - 1
         ELSE i > 1 => file[i - 1].cell = file[i - 1].length

\* C7: one thread is in the middle of a row while another waits to write.
C7_WriterWaitsForLock ==
    \E t \in Writers, u \in Writers :
        /\ t # u
        /\ wpc[t] = "writerow" /\ 0 < wcell[t] /\ wcell[t] < Len(wrow[t])
        /\ wpc[u] = "idle" /\ wleft[u] > 0

\* C8: the report starts with the header, which is written before any task is
\* submitted, and holds no second header.
C8_HeaderOnceAndFirst ==
    /\ mainpc = "run_for_files" =>
           report = << >> /\ \A h \in Hosts : pc[h] = "new"
    /\ mainpc # "run_for_files" =>
           Len(report) >= 1 /\ report[1].kind = "header"
    /\ \A i \in 2..Len(report) : report[i].kind = "row"

\* C8: a task has reached its row write and the report holds the header.
C8_TaskAtWriteAfterHeader ==
    \E h \in Hosts : pc[h] = "write" /\ report = << HeaderRow >>

\* C9: no task ends while the connection it opened is still open.
C9_TransportReleased ==
    \A h \in Hosts : pc[h] \in EndedPcs => transport[h] # "open"

\* C10: for a run with no check enabled, or with no command, ConnectHandler is
\* called for no host.
C10_NoConnectWithoutChecks ==
    ((\A c \in CHECKS : ~check_list[c]) \/ ncommands = 0) =>
        \A h \in Hosts : connects[h] = 0

\* C11: under SpecDevice, no command of a check that the check list disables
\* is sent to the host.
C11_DisabledCheckSendsNothing ==
    \A c \in DOMAIN CheckCommands : ~enabled[c] => Sent \cap CheckCommands[c] = {}

\* The writes of commands on the wire, in order.
CommandsWritten == SelectSeq(wire, LAMBDA e : e.dir = "out" /\ e.kind = "command")

\* C12: under SpecSsh, every call that is not in progress has returned its
\* value, a command is on the wire only for a call that has returned or is in
\* progress, so it was written after the call before it returned, each command
\* written is the command of its call, and the commands lie on the wire in the
\* order of the list of calls.
C12_CommandsSentInListOrder ==
    /\ Len(outputs) = position
    /\ \A i \in 1..Len(CommandsWritten) :
         LET e == CommandsWritten[i]
         IN  /\ e.call <= position + 1
             /\ exchange = "idle" => e.call <= position
             /\ \E j \in 1..Len(e.text) : e.text[j] = calls[e.call].command
             /\ i > 1 => CommandsWritten[i - 1].call < e.call

\* C12: two calls with different commands were both sent and answered.
C12_TwoCommandsAnswered ==
    /\ position = 2
    /\ calls[1].command # calls[2].command
    /\ Len(CommandsWritten) = 2
    /\ outputs[1] # << >> /\ outputs[2] # << >>

\* C13: under SpecSsh, the response of a prompt is written only right after a
\* read of the same call that held the expect pattern, which follows the write
\* of the call's command; a returned call with a prompt returned '' or the
\* first output followed by the second, one without a prompt '' or the output
\* of its one exchange; and no call with a prompt on a connected object ends
\* in an exception.
C13_PromptExchange ==
    /\ \A j \in 1..Len(wire) :
         wire[j].kind = "response" =>
            /\ j >= 3
            /\ wire[j - 1] = Read(wire[j].call, TRUE)
            /\ wire[j - 2].kind = "command" /\ wire[j - 2].call = wire[j].call
            /\ calls[wire[j].call].kwargs = "prompt"
    /\ \A t \in 1..position :
         \/ outputs[t] = << >>
         \/ IF calls[t].kwargs = "prompt"
            THEN /\ Len(outputs[t]) = 2
                 /\ outputs[t][2] = outputs[t][1] + 2
                 /\ wire[outputs[t][1]] = Read(t, TRUE)
                 /\ wire[outputs[t][1] + 1].kind = "response"
                 /\ wire[outputs[t][2]] = Read(t, TRUE)
            ELSE /\ Len(outputs[t]) = 1
                 /\ wire[outputs[t][1]].dir = "in" /\ wire[outputs[t][1]].call = t
                 /\ wire[outputs[t][1] - 1].kind = "command"
    /\ (lib_type # NoLib /\ exchange = "raised") => calls[next_call].kwargs # "prompt"

\* C14: under SpecSsh, on an object with no session every call of send_command
\* returns '', nothing is written to the transport and no call raises.
C14_NoSessionReturnsEmpty ==
    lib_type = NoLib =>
        /\ wire = << >>
        /\ exchange = "idle"
        /\ \A t \in 1..position : outputs[t] = << >>

\* C15: no step of a task that is at its disconnect leaves it anywhere but at
\* the write of its row, with its results untouched: whatever the teardown
\* did, nothing of it reaches run_for_device.
C15_TeardownNeverSurfaces ==
    [][\A h \in Hosts :
          pc[h] = "disconnect" =>
              /\ pc'[h] \in {"disconnect", "write"}
              /\ results'[h] = results[h]]_vars

\* C15: the teardown of a connected host failed, the connection is still open
\* and _ssh_lib_type still set, and the task stands at the write of its row.
C15_WriteStepAfterFailedTeardown ==
    \E h \in Hosts :
        /\ pc[h] = "write"
        /\ requested[h] > 0
        /\ ssh_lib_type[h] = SSH_LIB_NETMIKO
        /\ transport[h] = "open"

\* C16: under SpecPlatform, the platform of a text that matches a pattern is
\* the first key of HARDWARE_PLATFORMS, in the order of the dict, whose pattern
\* matches, whichever later patterns match as well.
C16_FirstMatchWins ==
    (platform # "unset" /\ \E i \in 1..Len(HARDWARE_PLATFORMS) :
                              re_search(HARDWARE_PLATFORMS[i], hardware_text)) =>
        \E i \in 1..Len(HARDWARE_PLATFORMS) :
            /\ platform = HARDWARE_PLATFORMS[i]
            /\ re_search(HARDWARE_PLATFORMS[i], hardware_text)
            /\ \A j \in 1..(i - 1) : ~re_search(HARDWARE_PLATFORMS[j], hardware_text)

\* C16: a text that matches the patterns of CE and S, such as 'CES6', was
\* identified as CE.
C16_TwoFamiliesMatched ==
    /\ platform = "CE"
    /\ re_search("CE", hardware_text)
    /\ re_search("S", hardware_text)

\* C17: under SpecDevice, on a device whose hardware text matches no pattern
\* of HARDWARE_PLATFORMS every request finds a command and a pattern to work
\* with: the request of the boards list does not raise.
C17_UnknownPlatformCollects ==
    hardware_platform(device.hardware) = "None" =>
        ~(session.raised /\ REQUESTS[session.requested] = "main_boards_list")

\* C18: under SpecDevice, on a device that answers every command with the
\* empty string the request of the common information does not raise.
C18_EmptyOutputNeverRaises ==
    (/\ ~device.version_match /\ ~device.uptime_match /\ device.hardware = {}
     /\ device.stack = "single" /\ ~device.mac_match) =>
        ~(session.raised /\ REQUESTS[session.requested] = "common")

\* C19: under SpecDevice, the patch version collected is the version when the
\* pattern of _return_patch matches, 'No patch' when it does not and the
\* output holds 'No patch exists', and 'N/A' when neither.
C19_PatchOutcomes ==
    "patch_version" \in DOMAIN session.properties =>
        session.properties["patch_version"] =
            IF device.patch_match THEN Extracted
            ELSE IF device.no_patch_exists THEN "No patch"
            ELSE "N/A"

C21_SinkClosedAfterAllTasks ==
    /\ mainpc \in {"del_csv", "returned"} =>
           \A h \in Hosts : submits[h] = 1 /\ pc[h] \in EndedPcs
    /\ xlsx # "none" => mainpc = "returned"
    /\ (mainpc = "returned" /\ xlsx = "none") => ~csv_open

\* Two hosts whose tasks reached the write step have ended and the transform
\* is reading the report.
C21_TransformAfterTwoTasks ==
    /\ xlsx = "reading"
    /\ nhosts = 2
    /\ \A h \in Hosts : pc[h] = "exception" /\ requested[h] > 0

\* C22: every run completes: every host of the list is processed (its task
\* starts and ends), BaseCollector.run and run_for_files return, and the
\* report exists with its header first.
C22_RunCompletes ==
    <>( /\ mainpc = "returned"
        /\ \A h \in Hosts : submits[h] = 1 /\ pc[h] \in EndedPcs
        /\ Len(report) > 0
        /\ report[1] = HeaderRow )

\* C23: concurrently running host tasks share no mutable object other than
\* the report: the logger a host task writes (its handlers, its propagate
\* flag) is used by no other host task, and no record of log_command reaches
\* the parent logger, whose propagation the task has switched off.
C23_TasksShareNoLogger ==
    /\ \A n \in HostNames : Cardinality(loggers[n].users) <= 1
    /\ \A t \in LogTasks : ~propagated[t]

\* C24: extraction is deterministic: two runs of the extraction on the same
\* captured text return the same value, also for the uptime field that is
\* turned into a 'since' timestamp.
C24_ExtractionDeterministic == Len(since) = 2 => since[1] = since[2]

RECURSIVE stated_minutes(_, _)
\* The duration an uptime text states, in minutes: its counts of weeks, days,
\* hours and minutes, each word in singular or plural form.
stated_minutes(matches, i) ==
    IF i > Len(matches) THEN 0
    ELSE matches[i][1] * (CASE matches[i][2] \in {"week", "weeks"} -> 7 * MinutesPerDay
                            [] matches[i][2] \in {"day", "days"} -> MinutesPerDay
                            [] matches[i][2] \in {"hour", "hours"} -> 60
                            [] matches[i][2] \in {"minute", "minutes"} -> 1)
         + stated_minutes(matches, i + 1)

\* C30: convert_uptime_to_since_date returns the current time less exactly
\* 7*weeks + days days and 60*hours + minutes minutes, for every uptime text
\* of counts of weeks, days, hours and minutes in singular or plural form,
\* and the "N/A for ..." text only when the text states no duration.
C30_SinceIsNowLessUptime ==
    [][Len(since') > Len(since) =>
          LET returned == since'[Len(since')]
              stated == stated_minutes(uptime_text, 1)
          IN  IF stated = 0 THEN returned = NotAvailable
              ELSE returned = [kind |-> "date",
                               minute |-> strftime(clock - TicksPerMinute * stated)]
      ]_vars

\* The error-level entries logged for the failed authentication of h.
AuthErrorEntries(h) == { i \in 1..Len(auth_log[h]) : auth_log[h][i] = "error" }

\* C25: when the run has returned, a host whose connect failed with an
\* authentication error has exactly one error-level log entry and no row, and
\* every other host of the run, once connected, has its row.
C25_AuthFailureLoggedOthersReported ==
    mainpc = "returned" =>
        \A g \in Hosts :
            auth_log[g] # << >> =>
                /\ Cardinality(AuthErrorEntries(g)) = 1
                /\ RowsOf(g) = {}
                /\ \A h \in Hosts \ {g} : Connected(h) => Cardinality(RowsOf(h)) = 1

\* C27: a connect failure is terminal for its host: ConnectHandler is called
\* at most once per host and never again once the connect step is over, and a
\* connect that left ssh_lib_type unset is followed by no request to the host:
\* the task goes to disconnect_ssh or ends, and requests are only ever made by
\* a task that connect sent on to request_all_for_device.
C27_ConnectFailureTerminal ==
    /\ [](\A h \in Hosts : connects[h] <= 1)
    /\ [][\A h \in Hosts :
            /\ pc[h] # "connect" => connects'[h] = connects[h]
            /\ (pc[h] = "connect" /\ ssh_lib_type'[h] = NoLib) =>
                   pc'[h] \in {"connect", "disconnect", "exception"}
            /\ pc[h] # "collect" => requested'[h] = requested[h]
            /\ (pc'[h] = "collect" /\ pc[h] # "collect") => pc[h] = "connect"
       ]_vars

\* C27: the task of a host whose authentication failed has ended after one
\* connect and no request, while another host was connected and queried.
C27_FailedHostEndedUnqueried ==
    \E g \in Hosts, h \in Hosts :
        /\ auth_log[g] = << "warning" >>
        /\ pc[g] \in EndedPcs /\ connects[g] = 1 /\ requested[g] = 0
        /\ requested[h] > 0

\* C28: under SpecDevice, the keys a request of request_all_for_device
\* contributes are none of the keys the earlier requests have put into the
\* record, and a request leaves every earlier value as it was: each field is
\* set by one request only.
C28_ChecksOwnDisjointKeys ==
    [][(session'.requested > session.requested /\ ~session'.raised) =>
          LET alone == request(REQUESTS[session'.requested],
                               [session EXCEPT !.properties = EmptyDict,
                                               !.requested = session'.requested],
                               device, enabled)
          IN  /\ DOMAIN alone.properties \cap DOMAIN session.properties = {}
              /\ \A k \in DOMAIN session.properties :
                   /\ k \in DOMAIN session'.properties
                   /\ session'.properties[k] = session.properties[k]
      ]_vars

\* C28: a record holds the fields of the common, stack, MAC, routes, users,
\* chassis, boards and VRF requests.
C28_RecordOfEightRequests ==
    /\ session.requested = 8
    /\ ~session.raised
    /\ {"hostname", "mgmt_ip", "stack_info", "capacity", "total",
        "mab_users_number", "esn_chassis", "main_boards_list", "vrf"}
           \subseteq DOMAIN session.properties

\* The object holds a session that commands can be sent over.
UsableSession ==
    /\ conn_open = "open"
    /\ use_lib = SSH_LIB_PARAMIKO => shell

\* C29: under SpecConn, ssh_lib_type is set exactly when a usable session is
\* open: it is unset before connect and after a failed connect, set only by a
\* connect that fully established the session, and unset again after
\* disconnect_ssh has returned, with Netmiko and with Paramiko.
C29_LibTypeIffSessionOpen ==
    /\ (conn_type # NoLib) <=> UsableSession
    /\ (ops # << >> /\ ops[Len(ops)] \in {"connect_failed", "connect_raised", "disconnected"})
           => conn_type = NoLib

\* A line of the form 'hostname, ipv4' that is no comment under the
\* configured comment sign.
HostLine(l, sign) ==
    /\ Len(l) = 3
    /\ l[1] = "sw1" /\ l[2] = "," /\ l[3] = "10.0.0.1"
    /\ l[1] # sign

RECURSIVE HostsOfLines(_, _, _)
\* The hosts of the first n lines: one per line of the form, in file order.
HostsOfLines(ls, n, sign) ==
    IF n = 0 THEN << >>
    ELSE LET before == HostsOfLines(ls, n - 1, sign)
         IN  IF HostLine(ls[n], sign)
             THEN Append(before, [hostname |-> << ls[n][1] >>, mgmt_ip |-> ls[n][3]])
             ELSE before

\* C26: under SpecHosts, the hosts yielded are, in file order, exactly one per
\* line of the form 'hostname, ipv4' that is no comment, with the hostname
\* and the address of the line; a comment line and a malformed line yield
\* no host.
C26_OneHostPerWellFormedLine ==
    hosts_read = HostsOfLines(host_lines, line_no, comment_sign)
====
